---- MODULE Spec2Model ----
(***************************************************************************)
(* Model of pgmigrate (migrator.go): construction of the migration catalog *)
(* from a listing of patch file names (newMigrator, Latest) and the        *)
(* transactional upgrade protocol (Current, initializeSchemaVersion,       *)
(* Apply, Up) run by several processes against one PostgreSQL database.    *)
(*                                                                         *)
(* File names are sequences of one-character strings, so that the regular  *)
(* expression, strconv.Atoi and strings.TrimSuffix are computed on the     *)
(* characters.  The database runs each statement atomically at the default *)
(* READ COMMITTED isolation level that pgx.BeginFunc gets from Begin: a    *)
(* statement sees what is committed when it runs plus its own              *)
(* transaction's writes, an UPDATE waits for the row lock of an            *)
(* uncommitted writer, and an error rolls the transaction back.            *)
(***************************************************************************)
EXTENDS Integers, Sequences, FiniteSets, TLC

\* ------------------------------------------------------------------ bounds
MaxFiles == 4
MaxN == 2
MaxCalls == 1

Procs == {"p1", "p2"}

\* --------------------------------------------------------------- file names
Digits == <<"0", "1", "2", "3", "4", "5", "6", "7", "8", "9">>

IsDigit(c) == \E k \in 1..Len(Digits) : Digits[k] = c

DigitVal(c) == (CHOOSE k \in 1..Len(Digits) : Digits[k] = c) - 1

SfxUp == <<".", "u", "p", ".", "s", "q", "l">>
SfxDown == <<".", "d", "o", "w", "n", ".", "s", "q", "l">>

HasSuffix(s, sfx) ==
    /\ Len(s) >= Len(sfx)
    /\ SubSeq(s, Len(s) - Len(sfx) + 1, Len(s)) = sfx

TrimSuffix(s, sfx) ==
    IF HasSuffix(s, sfx) THEN SubSeq(s, 1, Len(s) - Len(sfx)) ELSE s

\* length of the leading run of digits: the only candidate for ([0-9]+),
\* since the character after the group has to be the underscore
DigitRun(f) ==
    IF \A j \in 1..Len(f) : IsDigit(f[j])
    THEN Len(f)
    ELSE (CHOOSE k \in 1..Len(f) :
             /\ ~IsDigit(f[k])
             /\ \A j \in 1..(k - 1) : IsDigit(f[j])) - 1

\* the part of the name after "<digits>_", in which (.*)\.(up|down)\.sql$ matches
AfterVersion(f) == SubSeq(f, DigitRun(f) + 2, Len(f))

\* pattern.FindStringSubmatch(filename) # nil
Matches(f) ==
    /\ DigitRun(f) >= 1
    /\ Len(f) > DigitRun(f)
    /\ f[DigitRun(f) + 1] = "_"
    /\ \/ HasSuffix(AfterVersion(f), SfxUp)
       \/ HasSuffix(AfterVersion(f), SfxDown)

\* matches[3]
Direction(f) == IF HasSuffix(f, SfxUp) THEN "up" ELSE "down"

\* strconv.Atoi on a run of decimal digits.  The names of the model hold at
\* most two digits, far below the range where Atoi reports an error.
RECURSIVE Atoi(_)
Atoi(ds) ==
    IF Len(ds) = 0 THEN 0
    ELSE 10 * Atoi(SubSeq(ds, 1, Len(ds) - 1)) + DigitVal(ds[Len(ds)])

ParseVersion(f) == Atoi(SubSeq(f, 1, DigitRun(f)))

Migration(f) == [Version |-> ParseVersion(f), Filename |-> f]

\* the zero value Migrator{} returned with every error
EmptyMigrator == [MigrateUp |-> <<>>, MigrateDown |-> <<>>]

RECURSIVE ClassifyMut(_, _, _, _)
ClassifyMut(fs, isStrict, up, down) ==
    IF Len(fs) = 0
    THEN [err |-> "nil", up |-> up, down |-> down]
    ELSE IF ~Matches(Head(fs))
    THEN IF isStrict
         THEN [err |-> "invalid filename", up |-> <<>>, down |-> <<>>]
         ELSE [err |-> "nil", up |-> up, down |-> down]
    ELSE IF Direction(Head(fs)) = "up"
    THEN ClassifyMut(Tail(fs), isStrict, Append(up, Migration(Head(fs))), down)
    ELSE ClassifyMut(Tail(fs), isStrict, up, Append(down, Migration(Head(fs))))

\* the loop over the listing: buckets in listing order, or the strict error
RECURSIVE Classify(_, _, _, _)
Classify(fs, isStrict, up, down) ==
    IF Len(fs) = 0
    THEN [err |-> "nil", up |-> up, down |-> down]
    ELSE IF ~Matches(Head(fs))
    THEN IF isStrict
         THEN [err |-> "invalid filename", up |-> <<>>, down |-> <<>>]
         ELSE Classify(Tail(fs), isStrict, up, down)
    ELSE IF Direction(Head(fs)) = "up"
    THEN Classify(Tail(fs), isStrict, Append(up, Migration(Head(fs))), down)
    ELSE Classify(Tail(fs), isStrict, up, Append(down, Migration(Head(fs))))

SortedByVersionMut(s) == {s}
\* sort.Slice by Version is not stable: any ordering of the bucket that is
\* ascending by Version can come out
SortedByVersion(s) ==
    LET n == Len(s)
    IN {[k \in 1..n |-> s[f[k]]] : f \in
           {g \in Permutations(1..n) :
               \A a, b \in 1..n : a < b => s[g[a]].Version <= s[g[b]].Version}}

SequenceMut(s) == \A k \in 2..Len(s) : s[k].Version = s[k - 1].Version + 1
\* for i, v := range s { if v.Version != i+1 { error } } (i counts from 0)
Sequence(s) == \A k \in 1..Len(s) : s[k].Version = k

CountsMatchMut(up, down) == TRUE
\* len(m.MigrateUp) != len(m.MigrateDown) is an error
CountsMatch(up, down) == Len(up) = Len(down)

BaseNamesMatchMut(up, down, k) == up[k].Version = down[k].Version
\* strings.TrimSuffix(v.Filename, ".up.sql") == strings.TrimSuffix(m.MigrateDown[i].Filename, ".down.sql")
BaseNamesMatch(up, down, k) ==
    TrimSuffix(up[k].Filename, SfxUp) = TrimSuffix(down[k].Filename, SfxDown)

\* the checks after the two sorts, in the order of the code
Validate(up, down) ==
    IF ~Sequence(up)
    THEN [err |-> "unexpected sequence", m |-> EmptyMigrator]
    ELSE IF Len(down) = 0
    THEN [err |-> "nil", m |-> [MigrateUp |-> up, MigrateDown |-> <<>>]]
    ELSE IF ~CountsMatch(up, down)
    THEN [err |-> "up vs down scripts", m |-> EmptyMigrator]
    ELSE IF ~Sequence(down)
    THEN [err |-> "unexpected sequence", m |-> EmptyMigrator]
    ELSE IF Len(down) < Len(up)
    THEN [err |-> "panic: index out of range", m |-> EmptyMigrator]
    ELSE IF \E k \in 1..Len(up) : ~BaseNamesMatch(up, down, k)
    THEN [err |-> "up/down mismatch", m |-> EmptyMigrator]
    ELSE [err |-> "nil", m |-> [MigrateUp |-> up, MigrateDown |-> down]]

\* every result newMigrator(filesystem, strict) can return for a listing
newMigrator(fs, isStrict) ==
    LET c == Classify(fs, isStrict, <<>>, <<>>)
    IN IF c.err # "nil"
       THEN {[err |-> c.err, m |-> EmptyMigrator]}
       ELSE {Validate(u, d) : u \in SortedByVersion(c.up), d \in SortedByVersion(c.down)}

LatestMut(m) ==
    IF Len(m.MigrateUp) = 0 THEN 0 ELSE m.MigrateUp[1].Version
\* Migrator.Latest
Latest(m) ==
    IF Len(m.MigrateUp) = 0 THEN 0 ELSE m.MigrateUp[Len(m.MigrateUp)].Version

\* ----------------------------------------------------- patch stores modelled
UpFile(v, c) == <<Digits[v + 1], "_", c>> \o SfxUp
DownFile(v, c) == <<Digits[v + 1], "_", c>> \o SfxDown

\* the names a listing of the catalog specification is drawn from
Names ==
    { UpFile(1, "a"), UpFile(2, "b"), UpFile(3, "c"), UpFile(5, "w"),
      <<"0">> \o UpFile(1, "a"),
      DownFile(1, "a"), DownFile(2, "b"), DownFile(2, "c"),
      <<"n", "o", "t", "e", "s", ".", "s", "q", "l">> }

Listings ==
    UNION {{s \in [1..n -> Names] : \A a, b \in 1..n : a # b => s[a] # s[b]} : n \in 0..MaxFiles}

\* the up-only patch store of n scripts that the upgrade specifications use
PatchSet(n) == [v \in 1..n |-> UpFile(v, "m")]

\* ------------------------------------------------------------------- state
VARIABLES
    files,     \* the listing fs.Glob(filesystem, "*.sql") gives to newMigrator
    strict,    \* newMigrator's strict flag (New: TRUE, NewLoose: FALSE)
    built,     \* what newMigrator returned: [err, m], m the Migrator in use
    db,        \* committed database: version table, its rows, scripts applied
    tx,        \* per process: the uncommitted writes of its open transaction
    loc,       \* per process: position in Current/Up/Apply and their locals
    obs,       \* per process: what the call in progress has done (history)
    last       \* the call that returned most recently (history)

vars == <<files, strict, built, db, tx, loc, obs, last>>

NotBuilt == [err |-> "unbuilt", m |-> EmptyMigrator]

\* a database on which no call has run yet
FreshDb == [exists |-> FALSE, rows |-> <<>>, log |-> <<>>]

\* a database in which the version table is there and holds no row: the
\* table was created by other means than initializeSchemaVersion
EmptyDb == [exists |-> TRUE, rows |-> <<>>, log |-> <<>>]

\* a database that an earlier run of Up has left at version v
DbAt(v) == [exists |-> TRUE, rows |-> <<v>>, log |-> [k \in 1..v |-> k]]

NoTx == [created |-> FALSE, sawAbsent |-> FALSE, ins |-> <<>>, upd |-> <<>>,
         locked |-> FALSE, scripts |-> <<>>]

IdleLoc == [pc |-> "idle", kind |-> "none", current |-> 0, i |-> 1,
            err |-> "nil", result |-> "none", calls |-> 0]

\* attempts: the versions Apply was called for; ran: the versions whose script
\* was sent to the database; committed: the versions whose Apply committed;
\* failed: the versions whose Apply returned an error; start: what Current
\* returned; prev: how the call ended that had returned last when this one
\* began; faulted: a script could not be read or was rejected, or the call
\* was interrupted; trace: the statements the Apply in progress has run so far
NoLast == "none"

\* how a call ended, as far as the next call is concerned: an Up that
\* returned nil, an Up that stopped having committed a step, anything else
Ended(kind, res, committed) ==
    IF kind = "Up" /\ res = "nil" THEN "up done"
    ELSE IF kind = "Up" /\ committed # <<>> THEN "up stopped"
    ELSE "other"

NoObs == [attempts |-> <<>>, ran |-> <<>>, committed |-> <<>>, failed |-> <<>>,
          start |-> -1, prev |-> NoLast, faulted |-> FALSE, trace |-> <<>>]

\* -------------------------------------------------------- database semantics
InsertAllowedMut(rows) == TRUE
\* CREATE TABLE ... (id INTEGER PRIMARY KEY CONSTRAINT one_version CHECK(id = 1), ...):
\* every row has id = 1, so an insert is rejected once a row is there
InsertAllowed(rows) == Len(rows) = 0

\* INSERT INTO ... (id, version) VALUES (1, 0)
InsertedVersion == 0

\* what a statement of transaction t sees of the version table
TableVisible(d, t) == d.exists \/ t.created
RowsVisible(d, t) ==
    (IF t.upd # <<>> THEN [k \in 1..Len(d.rows) |-> t.upd[1]] ELSE d.rows) \o t.ins

\* pgx.BeginFunc on a nil error: the transaction's writes become the committed state
CommitTx(d, t) ==
    [exists |-> d.exists \/ t.created,
     rows |-> (IF t.locked THEN [k \in 1..Len(d.rows) |-> t.upd[1]] ELSE d.rows) \o t.ins,
     log |-> d.log \o t.scripts]

RollbackTxMut(d, t) == [d EXCEPT !.rows = CommitTx(d, t).rows]
\* pgx.BeginFunc on an error (or a cancelled context): nothing of t is kept
RollbackTx(d, t) == d

\* ------------------------------------------------------- the code's decisions
AlreadyPopulatedMut(count) == count > 1
\* initializeSchemaVersion: if count > 0 { return nil }
AlreadyPopulated(count) == count > 0

ConflictMut(current, before) == FALSE
\* Apply: if current != before { return error }
Conflict(current, before) == current # before

SkipStepMut(current, version) == current > version
\* Up: if current >= v.Version { continue }
SkipStep(current, version) == current >= version

UpContinuesMut(err) == TRUE
\* Up: if err != nil { return ... }; otherwise the loop goes on
UpContinues(err) == err = "nil"

NextCurrentMut(current, version) == current
\* Up: current = v.Version
NextCurrent(current, version) == version

M == built.m
Step(p) == M.MigrateUp[loc[p].i]

AfterStepMut(pc) ==
    CASE pc = "ap_read" -> "ap_select"
      [] pc = "ap_select" -> "ap_exec"
      [] pc = "ap_exec" -> "ap_update"
      [] pc = "ap_update" -> "ap_commit"
\* Apply: the statement that follows a statement that did not fail
AfterStep(pc) ==
    CASE pc = "ap_read" -> "ap_select"
      [] pc = "ap_select" -> "ap_update"
      [] pc = "ap_update" -> "ap_exec"
      [] pc = "ap_exec" -> "ap_commit"

\* what a step of Apply does: fs.ReadFile; BeginFunc and the select with its
\* comparison; the update; tx.Exec of the script; the commit
Events(pc) ==
    CASE pc = "ap_read" -> <<"read">>
      [] pc = "ap_select" -> <<"begin", "select">>
      [] pc = "ap_update" -> <<"update">>
      [] pc = "ap_exec" -> <<"exec">>
      [] pc = "ap_commit" -> <<"commit">>
      [] OTHER -> <<>>

\* -------------------------------------------------------------------- steps
\* the call of p returns res; an open transaction is rolled back
Returns(p, res, fault) ==
    /\ loc' = [loc EXCEPT ![p].pc = "returned", ![p].result = res]
    /\ db' = RollbackTx(db, tx[p])
    /\ tx' = [tx EXCEPT ![p] = NoTx]
    /\ obs' = [obs EXCEPT ![p].faulted = @ \/ fault, ![p].trace = <<>>]
    /\ last' = Ended(loc[p].kind, res, obs[p].committed)

\* Apply returns e to Up after BeginFunc rolled the transaction back
ApplyFails(p, e, fault, sent) ==
    /\ loc' = [loc EXCEPT ![p].pc = "up_check", ![p].err = e]
    /\ db' = RollbackTx(db, tx[p])
    /\ tx' = [tx EXCEPT ![p] = NoTx]
    /\ obs' = [obs EXCEPT ![p].faulted = @ \/ fault, ![p].ran = @ \o sent,
                          ![p].failed = Append(@, Step(p).Version),
                          ![p].trace = @ \o Events(loc[p].pc)]
    /\ UNCHANGED last

\* a process calls Current or Up
StartCall(p) ==
    /\ loc[p].pc = "idle"
    /\ loc[p].calls < MaxCalls
    /\ \E k \in {"Current", "Up"} :
         /\ loc' = [loc EXCEPT ![p] = [IdleLoc EXCEPT !.pc = "init_create", !.kind = k,
                                                      !.calls = loc[p].calls + 1]]
         /\ obs' = [obs EXCEPT ![p] = [NoObs EXCEPT !.prev = last]]
    /\ UNCHANGED last
    /\ UNCHANGED <<files, strict, built, db, tx>>

\* initializeSchemaVersion: CREATE TABLE IF NOT EXISTS.  A transaction that
\* found no table while another one had created it without having committed
\* waits for that one; if that one commits, the waiting CREATE is rejected.
InitCreate(p) ==
    /\ loc[p].pc = "init_create"
    /\ IF db.exists
       THEN IF tx[p].sawAbsent
            THEN Returns(p, "init create", FALSE)
            ELSE /\ loc' = [loc EXCEPT ![p].pc = "init_count"]
                 /\ UNCHANGED last
                 /\ UNCHANGED <<db, tx, obs>>
       ELSE IF \E q \in Procs \ {p} : tx[q].created
            THEN /\ ~tx[p].sawAbsent
                 /\ tx' = [tx EXCEPT ![p].sawAbsent = TRUE]
                 /\ UNCHANGED last
                 /\ UNCHANGED <<db, loc, obs>>
            ELSE /\ tx' = [tx EXCEPT ![p].created = TRUE, ![p].sawAbsent = FALSE]
                 /\ loc' = [loc EXCEPT ![p].pc = "init_count"]
                 /\ UNCHANGED last
                 /\ UNCHANGED <<db, obs>>
    /\ UNCHANGED <<files, strict, built>>

\* SELECT COUNT(*); if count > 0 { return nil }
InitCount(p) ==
    /\ loc[p].pc = "init_count"
    /\ loc' = [loc EXCEPT ![p].pc =
                 IF AlreadyPopulated(Len(RowsVisible(db, tx[p])))
                 THEN "init_commit" ELSE "init_insert"]
    /\ UNCHANGED last
    /\ UNCHANGED <<files, strict, built, db, tx, obs>>

\* INSERT INTO ... VALUES (1, 0); waits for an uncommitted insert of another transaction
InitInsert(p) ==
    /\ loc[p].pc = "init_insert"
    /\ \A q \in Procs \ {p} : tx[q].ins = <<>>
    /\ IF InsertAllowed(RowsVisible(db, tx[p]))
       THEN /\ tx' = [tx EXCEPT ![p].ins = Append(@, InsertedVersion)]
            /\ loc' = [loc EXCEPT ![p].pc = "init_commit"]
            /\ UNCHANGED last
            /\ UNCHANGED <<db, obs>>
       ELSE Returns(p, "init insert", FALSE)
    /\ UNCHANGED <<files, strict, built>>

\* the commit that ends initializeSchemaVersion's transaction
InitCommit(p) ==
    /\ loc[p].pc = "init_commit"
    /\ db' = CommitTx(db, tx[p])
    /\ tx' = [tx EXCEPT ![p] = NoTx]
    /\ loc' = [loc EXCEPT ![p].pc = "cur_select"]
    /\ UNCHANGED last
    /\ UNCHANGED <<files, strict, built, obs>>

\* Current: select version in a transaction of its own; Up goes on to its loop
CurSelect(p) ==
    /\ loc[p].pc = "cur_select"
    /\ IF ~TableVisible(db, tx[p]) \/ RowsVisible(db, tx[p]) = <<>>
       THEN Returns(p, "state", FALSE)
       ELSE IF loc[p].kind = "Current"
       THEN /\ loc' = [loc EXCEPT ![p].pc = "returned", ![p].result = "nil",
                                  ![p].current = RowsVisible(db, tx[p])[1]]
            /\ obs' = [obs EXCEPT ![p].start = RowsVisible(db, tx[p])[1]]
            /\ last' = Ended("Current", "nil", <<>>)
            /\ UNCHANGED <<db, tx>>
       ELSE /\ loc' = [loc EXCEPT ![p].pc = "up_loop", ![p].i = 1,
                                  ![p].current = RowsVisible(db, tx[p])[1]]
            /\ obs' = [obs EXCEPT ![p].start = RowsVisible(db, tx[p])[1]]
            /\ UNCHANGED last
            /\ UNCHANGED <<db, tx>>
    /\ UNCHANGED <<files, strict, built>>

\* Up: for _, v := range m.MigrateUp
UpLoop(p) ==
    /\ loc[p].pc = "up_loop"
    /\ IF loc[p].i > Len(M.MigrateUp)
       THEN Returns(p, "nil", FALSE)
       ELSE IF SkipStep(loc[p].current, Step(p).Version)
       THEN /\ loc' = [loc EXCEPT ![p].i = @ + 1]
            /\ UNCHANGED last
            /\ UNCHANGED <<db, tx, obs>>
       ELSE /\ loc' = [loc EXCEPT ![p].pc = "ap_read"]
            /\ obs' = [obs EXCEPT ![p].attempts = Append(@, Step(p).Version),
                                  ![p].trace = <<>>]
            /\ UNCHANGED last
            /\ UNCHANGED <<db, tx>>
    /\ UNCHANGED <<files, strict, built>>

\* Apply: fs.ReadFile(m.Filesystem, filename), before any transaction is open
ApRead(p) ==
    /\ loc[p].pc = "ap_read"
    /\ \E ok \in BOOLEAN :
         IF ok
         THEN /\ loc' = [loc EXCEPT ![p].pc = AfterStep("ap_read")]
              /\ obs' = [obs EXCEPT ![p].trace = @ \o Events("ap_read")]
              /\ UNCHANGED last
              /\ UNCHANGED <<db, tx>>
         ELSE ApplyFails(p, "read", TRUE, <<>>)
    /\ UNCHANGED <<files, strict, built>>

\* Apply: select version ... Scan(&current); if current != before
ApSelect(p) ==
    /\ loc[p].pc = "ap_select"
    /\ IF ~TableVisible(db, tx[p]) \/ RowsVisible(db, tx[p]) = <<>>
       THEN ApplyFails(p, "state", FALSE, <<>>)
       ELSE IF Conflict(RowsVisible(db, tx[p])[1], loc[p].current)
       THEN ApplyFails(p, "conflict", FALSE, <<>>)
       ELSE /\ loc' = [loc EXCEPT ![p].pc = AfterStep("ap_select")]
            /\ obs' = [obs EXCEPT ![p].trace = @ \o Events("ap_select")]
            /\ UNCHANGED last
            /\ UNCHANGED <<db, tx>>
    /\ UNCHANGED <<files, strict, built>>

\* Apply: update ... set version = $1 (after); waits for the row lock
ApUpdate(p) ==
    /\ loc[p].pc = "ap_update"
    /\ \A q \in Procs \ {p} : ~tx[q].locked
    /\ tx' = [tx EXCEPT ![p].upd = <<Step(p).Version>>, ![p].locked = Len(db.rows) > 0]
    /\ loc' = [loc EXCEPT ![p].pc = AfterStep("ap_update")]
    /\ obs' = [obs EXCEPT ![p].trace = @ \o Events("ap_update")]
    /\ UNCHANGED last
    /\ UNCHANGED <<files, strict, built, db>>

\* Apply: tx.Exec(ctx, string(sql)); the database accepts the script or rejects it
ApExec(p) ==
    /\ loc[p].pc = "ap_exec"
    /\ \E ok \in BOOLEAN :
         IF ok
         THEN /\ tx' = [tx EXCEPT ![p].scripts = Append(@, Step(p).Version)]
              /\ loc' = [loc EXCEPT ![p].pc = AfterStep("ap_exec")]
              /\ obs' = [obs EXCEPT ![p].ran = Append(@, Step(p).Version),
                                    ![p].trace = @ \o Events("ap_exec")]
              /\ UNCHANGED last
              /\ UNCHANGED db
         ELSE ApplyFails(p, "exec", TRUE, <<Step(p).Version>>)
    /\ UNCHANGED <<files, strict, built>>

\* Apply: the closure returned nil, BeginFunc commits, Apply returns nil
ApCommit(p) ==
    /\ loc[p].pc = "ap_commit"
    /\ db' = CommitTx(db, tx[p])
    /\ tx' = [tx EXCEPT ![p] = NoTx]
    /\ loc' = [loc EXCEPT ![p].pc = "up_check", ![p].err = "nil"]
    /\ obs' = [obs EXCEPT ![p].committed = Append(@, Step(p).Version),
                          ![p].trace = @ \o Events("ap_commit")]
    /\ UNCHANGED last
    /\ UNCHANGED <<files, strict, built>>

\* Up: err := m.Apply(...); if err != nil { return }; current = v.Version
UpCheck(p) ==
    /\ loc[p].pc = "up_check"
    /\ IF UpContinues(loc[p].err)
       THEN /\ loc' = [loc EXCEPT ![p].pc = "up_loop", ![p].i = @ + 1, ![p].err = "nil",
                         ![p].current = NextCurrent(loc[p].current, Step(p).Version)]
            /\ UNCHANGED last
            /\ UNCHANGED <<db, tx, obs>>
       ELSE Returns(p, loc[p].err, FALSE)
    /\ UNCHANGED <<files, strict, built>>

\* the context of the call is cancelled, or the process stops: whatever
\* transaction is open rolls back and the call is over
Interrupt(p) ==
    /\ loc[p].pc \notin {"idle", "returned"}
    /\ Returns(p, "interrupted", TRUE)
    /\ UNCHANGED <<files, strict, built>>

\* the caller has the result of the call; its locals are gone
Leave(p) ==
    /\ loc[p].pc = "returned"
    /\ loc' = [loc EXCEPT ![p] = [IdleLoc EXCEPT !.calls = loc[p].calls]]
    /\ obs' = [obs EXCEPT ![p] = NoObs]
    /\ UNCHANGED <<files, strict, built, db, tx, last>>

\* New / NewLoose
Build ==
    /\ built = NotBuilt
    /\ built' \in newMigrator(files, strict)
    /\ UNCHANGED <<files, strict, db, tx, loc, obs, last>>

\* ----------------------------------------------------------- specifications
InitProcs ==
    /\ tx = [p \in Procs |-> NoTx]
    /\ loc = [p \in Procs |-> IdleLoc]
    /\ obs = [p \in Procs |-> NoObs]
    /\ last = NoLast

\* the processes share a catalog built from an up-only patch store of n
\* scripts; the database is new, or an earlier run left it at some version
Init ==
    /\ \E n \in 0..MaxN :
         /\ files = PatchSet(n)
         /\ strict = TRUE
         /\ built \in newMigrator(PatchSet(n), TRUE)
    /\ db \in {FreshDb} \cup {DbAt(v) : v \in 0..MaxN}
    /\ InitProcs

Step1(p) ==
    \/ InitCreate(p) \/ InitCount(p) \/ InitInsert(p) \/ InitCommit(p)
    \/ CurSelect(p) \/ UpLoop(p) \/ ApRead(p) \/ ApSelect(p) \/ ApUpdate(p)
    \/ ApExec(p) \/ ApCommit(p) \/ UpCheck(p) \/ Interrupt(p) \/ Leave(p)

\* any number of processes, their calls overlapping
Next == \E p \in Procs : StartCall(p) \/ Step1(p)
Spec == Init /\ [][Next]_vars

\* calls that do not overlap: a call starts when no other call is in progress
StartCallSeq(p) ==
    /\ \A q \in Procs : loc[q].pc = "idle"
    /\ StartCall(p)
NextSeq == \E p \in Procs : StartCallSeq(p) \/ Step1(p)
SpecSeq == Init /\ [][NextSeq]_vars

\* the same calls on a database that may also hold a version table without
\* a row when the first call starts
InitAnyDb ==
    /\ \E n \in 0..MaxN :
         /\ files = PatchSet(n)
         /\ strict = TRUE
         /\ built \in newMigrator(PatchSet(n), TRUE)
    /\ db \in {FreshDb, EmptyDb} \cup {DbAt(v) : v \in 0..MaxN}
    /\ InitProcs
SpecAnyDb == InitAnyDb /\ [][Next]_vars
SpecSeqAnyDb == InitAnyDb /\ [][NextSeq]_vars

\* several processes run Up against an initialised database; no script fails
\* to read or to execute and no call is interrupted
InitUp ==
    /\ \E n \in 0..MaxN :
         /\ files = PatchSet(n)
         /\ strict = TRUE
         /\ built \in newMigrator(PatchSet(n), TRUE)
    /\ db \in {DbAt(v) : v \in 0..MaxN}
    /\ InitProcs
UpProgress(p) ==
    \/ InitCreate(p) \/ InitCount(p) \/ InitCommit(p)
    \/ CurSelect(p) \/ UpLoop(p) \/ ApRead(p) \/ ApSelect(p) \/ ApUpdate(p)
    \/ ApExec(p) \/ ApCommit(p) \/ UpCheck(p)
Undisturbed(p) == loc'[p].kind # "Current" /\ ~obs'[p].faulted
UpStep(p) == (StartCall(p) \/ UpProgress(p) \/ Leave(p)) /\ Undisturbed(p)
NextUp == \E p \in Procs : UpStep(p)
\* a call in progress is a running goroutine with a live connection: the Go
\* scheduler and the database run its next statement when it is not waiting
\* for a lock, so a step of the call that stays possible is taken
SpecUpFair ==
    /\ InitUp
    /\ [][NextUp]_vars
    /\ \A p \in Procs : WF_vars(UpProgress(p) /\ Undisturbed(p))

\* construction of the catalog from any listing
InitBuild ==
    /\ files \in Listings
    /\ strict \in BOOLEAN
    /\ built = NotBuilt
    /\ db = FreshDb
    /\ InitProcs
NextBuild == Build
SpecBuild == InitBuild /\ [][NextBuild]_vars

\* ------------------------------------------------------------------ claims
Range(s) == {s[j] : j \in 1..Len(s)}
Count(s, k) == Cardinality({j \in 1..Len(s) : s[j] = k})
\* the sequence a+1, a+2, ..., b (empty when b <= a)
FromTo(a, b) == [j \in 1..(b - a) |-> a + j]
IsPrefix(s, t) == Len(s) <= Len(t) /\ s = SubSeq(t, 1, Len(s))
InCall(p) == loc[p].pc \notin {"idle", "returned"}
JustReturned(p) == loc[p].pc = "returned"
UpCall(p) == loc[p].kind = "Up"
\* the call of p is an Up that directly follows an Up that returned nil
AfterOk(p) == UpCall(p) /\ obs[p].prev = "up done"
N == Latest(M)

\* C1: when two processes race to apply the same step, at most one of the two
\* transactions commits, so the script of a step is committed at most once.
C1_StepCommittedAtMostOnce ==
    \A k \in 1..MaxN : Count(db.log, k) <= 1

\* C2: when the database rejects the script of step k during upgrade, Apply
\* returns the error, the call returns it, and the persisted version is k-1;
\* in every committed state script k is applied exactly when the version row
\* has reached k.
C2_Atomicity ==
    /\ \A p \in Procs :
         (UpCall(p) /\ Len(obs[p].failed) > 0 /\
            \/ loc[p].pc = "up_check" /\ loc[p].err = "exec"
            \/ JustReturned(p) /\ loc[p].result = "exec")
         => /\ db.rows = <<Step(p).Version - 1>>
            /\ Step(p).Version \notin Range(db.log)
    /\ db.exists => \A k \in 1..MaxN : (k \in Range(db.log)) <=> (db.rows[1] >= k)

C2_Witness ==
    \E p \in Procs :
        /\ JustReturned(p) /\ loc[p].result = "exec"
        /\ obs[p].committed = <<1>> /\ obs[p].ran = <<1, 2>>
        /\ db.rows = <<1>> /\ db.log = <<1>>

\* C3: with calls that do not overlap, in every committed state the version
\* row says v exactly when the scripts 1..v have each been committed once, in
\* ascending order, and no other script has been committed.
C3_VersionNamesCommittedSteps ==
    db.exists => /\ Len(db.rows) = 1
                 /\ db.log = FromTo(0, db.rows[1])

C3_Witness ==
    \E p \in Procs :
        /\ obs[p].prev = "up stopped" /\ obs[p].start = 1
        /\ JustReturned(p) /\ loc[p].result = "nil" /\ obs[p].committed = <<2>>
        /\ db.rows = <<2>> /\ db.log = <<1, 2>>

\* C4: an upgrade call that finds the database at version k (an earlier call
\* having stopped after step k) attempts the steps k+1, k+2, ... in order and
\* nothing else; unless a script cannot be read or is rejected or the call is
\* interrupted, it returns nil having committed k+1..N, and it never waits.
C4_Progress(p) ==
    \/ InitCreate(p) \/ InitCount(p) \/ InitInsert(p) \/ InitCommit(p)
    \/ CurSelect(p) \/ UpLoop(p) \/ ApRead(p) \/ ApSelect(p) \/ ApUpdate(p)
    \/ ApExec(p) \/ ApCommit(p) \/ UpCheck(p)

C4_Resumes ==
    \A p \in Procs :
        (UpCall(p) /\ obs[p].start >= 0 /\ (InCall(p) \/ JustReturned(p)))
        => /\ IsPrefix(obs[p].attempts, FromTo(obs[p].start, N))
           /\ IsPrefix(obs[p].ran, obs[p].attempts)
           /\ IsPrefix(obs[p].committed, obs[p].ran)
           /\ InCall(p) => ENABLED C4_Progress(p)
           /\ (JustReturned(p) /\ ~obs[p].faulted)
              => /\ loc[p].result = "nil"
                 /\ obs[p].committed = FromTo(obs[p].start, N)
                 /\ obs[p].start <= N => db.rows = <<N>>

C4_Witness ==
    \E p \in Procs :
        /\ obs[p].prev = "up stopped" /\ obs[p].start = 1
        /\ UpCall(p) /\ JustReturned(p) /\ loc[p].result = "nil"
        /\ obs[p].start = 1 /\ obs[p].ran = FromTo(1, MaxN) /\ N = MaxN

\* C5: an upgrade call that directly follows an upgrade call that returned
\* nil, nothing else touching the database, executes no script, leaves the
\* database as it found it and reports no error.
C5_SecondUpgradeIsNoOp ==
    /\ [](\A p \in Procs :
            (AfterOk(p) /\ (InCall(p) \/ JustReturned(p)))
            => /\ obs[p].attempts = <<>> /\ obs[p].ran = <<>>
               /\ loc[p].err = "nil"
               /\ JustReturned(p) => loc[p].result \in {"nil", "interrupted"})
    /\ [][\A p \in Procs : (AfterOk(p) /\ InCall(p)) => db' = db]_vars

C5_Witness ==
    \E p \in Procs :
        /\ AfterOk(p) /\ JustReturned(p) /\ loc[p].result = "nil"
        /\ N = MaxN /\ db.log = FromTo(0, MaxN) /\ obs[p].start = MaxN

\* C6 as stated: after an upgrade call returns nil, the persisted version is
\* latestVersion, whatever version the database held before the call.
C6_AnyStartReachesLatest ==
    \A p \in Procs :
        (JustReturned(p) /\ UpCall(p) /\ loc[p].result = "nil")
        => db.rows = <<N>>

\* C6 amended: after an upgrade call returns nil, the persisted version is
\* latestVersion, provided the version the call found did not exceed it.
C6_ReachesLatest ==
    \A p \in Procs :
        (JustReturned(p) /\ UpCall(p) /\ loc[p].result = "nil" /\ obs[p].start <= N)
        => db.rows = <<N>>

C6_Witness ==
    \E p \in Procs :
        /\ JustReturned(p) /\ UpCall(p) /\ loc[p].result = "nil"
        /\ obs[p].start = 0 /\ N = MaxN /\ obs[p].committed = FromTo(0, MaxN)

\* C7: once Apply has returned an error for step k, Up returns that error:
\* it calls Apply for no further step and not again for step k, and the steps
\* the call committed before stay committed.
C7_StopsAtFirstError ==
    \A p \in Procs :
        /\ \A a, b \in 1..Len(obs[p].attempts) :
               a < b => obs[p].attempts[a] < obs[p].attempts[b]
        /\ Range(obs[p].committed) \subseteq Range(db.log)
        /\ obs[p].failed # <<>>
           => /\ obs[p].failed = <<obs[p].attempts[Len(obs[p].attempts)]>>
              /\ obs[p].failed[1] \notin Range(obs[p].committed)
              /\ \/ loc[p].pc = "up_check" /\ loc[p].err # "nil"
                 \/ loc[p].pc = "returned" /\ loc[p].result \in {loc[p].err, "interrupted"}
                                       /\ loc[p].err # "nil"

C7_Witness ==
    \E p \in Procs :
        /\ JustReturned(p) /\ loc[p].result = "conflict"
        /\ obs[p].committed = <<1>> /\ obs[p].failed = <<2>>
        /\ 1 \in Range(db.log)

\* the up and the down scripts of the listing, as the naming convention reads them
IsUpName(f) == Matches(f) /\ Direction(f) = "up"
IsDownName(f) == Matches(f) /\ Direction(f) = "down"
UpScripts == SelectSeq(files, IsUpName)
DownScripts == SelectSeq(files, IsDownName)
VersionsOf(fs) == [k \in 1..Len(fs) |-> ParseVersion(fs[k])]
\* the versions are exactly 1..N, each once
IsOneToN(vs) == \A k \in 1..Len(vs) : Count(vs, k) = 1
Built == built # NotBuilt
BuildFailed == built.err # "nil" /\ built.m = EmptyMigrator

\* C8: build fails, returning the empty catalog, for every listing whose up
\* versions are not exactly 1..N (a gap, a duplicate, or no version 1).
C8_NonContiguousFails ==
    (Built /\ ~IsOneToN(VersionsOf(UpScripts))) => BuildFailed

C8_Witness ==
    /\ Built /\ ~strict
    /\ Len(UpScripts) = 3 /\ Range(VersionsOf(UpScripts)) = {1, 2, 5}
    /\ built.err = "unexpected sequence" /\ built.m = EmptyMigrator

\* C9 as stated: build fails for every listing in which the number of up
\* scripts differs from the number of down scripts.
C9_CountMismatchFails ==
    (Built /\ Len(UpScripts) # Len(DownScripts)) => BuildFailed

\* C9 amended: build fails for every listing with at least one down script in
\* which the number of up scripts differs from the number of down scripts.
C9_CountMismatchWithDownFails ==
    (Built /\ Len(DownScripts) > 0 /\ Len(UpScripts) # Len(DownScripts)) => BuildFailed

C9_Witness ==
    /\ Built
    /\ Len(UpScripts) = 2 /\ IsOneToN(VersionsOf(UpScripts)) /\ Len(DownScripts) = 1
    /\ built.err = "up vs down scripts" /\ built.m = EmptyMigrator

\* C10: build fails for every listing with down scripts in which, at some
\* index of the two sorted sequences, the file name of the up script without
\* ".up.sql" differs from the file name of the down script without ".down.sql".
C10_BaseNameMismatchFails ==
    Built =>
      LET ups == [k \in 1..Len(UpScripts) |-> Migration(UpScripts[k])]
          downs == [k \in 1..Len(DownScripts) |-> Migration(DownScripts[k])]
      IN (/\ Len(downs) > 0
          /\ \E u \in SortedByVersion(ups), d \in SortedByVersion(downs) :
               \E k \in 1..Len(u) :
                   /\ k <= Len(d)
                   /\ TrimSuffix(u[k].Filename, SfxUp) # TrimSuffix(d[k].Filename, SfxDown))
         => BuildFailed

C10_Witness ==
    /\ Built
    /\ files = <<UpFile(1, "a"), UpFile(2, "b"), DownFile(1, "a"), DownFile(2, "c")>>
    /\ built.err = "up/down mismatch" /\ built.m = EmptyMigrator

\* C11: for every listing that holds only up scripts, of the versions 1..N
\* each once, in whatever order the listing gives them, newMigrator succeeds,
\* MigrateUp holds version i+1 at index i (TLA+ index k holds version k), and
\* Latest returns N, which is 0 for the empty listing.
C11_UpOnlyBuilds ==
    (/\ Built
     /\ \A k \in 1..Len(files) : IsUpName(files[k])
     /\ IsOneToN(VersionsOf(files)))
    => /\ built.err = "nil"
       /\ Len(built.m.MigrateUp) = Len(files)
       /\ \A k \in 1..Len(files) : built.m.MigrateUp[k].Version = k
       /\ Range(built.m.MigrateUp) = {Migration(files[k]) : k \in 1..Len(files)}
       /\ built.m.MigrateDown = <<>>
       /\ Latest(built.m) = Len(files)

C11_Witness ==
    /\ Built
    /\ files = <<UpFile(3, "c"), UpFile(1, "a"), UpFile(2, "b")>>
    /\ built.err = "nil" /\ Latest(built.m) = 3
    /\ built.m.MigrateUp[1].Filename = UpFile(1, "a")

\* the listing without the names that do not match the naming convention
Matching == SelectSeq(files, Matches)

\* C12: a strict build fails, returning the empty catalog, whenever the
\* listing holds a name that does not match the naming convention; a loose
\* build of a listing returns exactly what a strict build returns for the
\* listing without its non-matching names: the same catalog or the same error.
C12_LooseIsStrictOnMatching ==
    /\ (Built /\ strict /\ Matching # files)
       => (built.err = "invalid filename" /\ built.m = EmptyMigrator)
    /\ (Built /\ ~strict) => built \in newMigrator(Matching, TRUE)
    /\ newMigrator(files, FALSE) = newMigrator(Matching, TRUE)

C12_Witness ==
    /\ Built /\ ~strict
    /\ Len(files) = 3 /\ Len(Matching) = 2 /\ ~Matches(files[1])
    /\ built.err = "nil" /\ Latest(built.m) = 2

CurrentCall(p) == loc[p].kind = "Current"

\* C13: with calls that do not overlap, a Current call that is not
\* interrupted returns nil and the version of the single row the table then
\* holds; while the call runs, a database without a row (no table, or a
\* table with no row) can only get the row with version 0, an existing row
\* is never changed and no script is run, however many calls came before.
C13_CurrentBootstraps ==
    /\ [](\A p \in Procs :
            (CurrentCall(p) /\ JustReturned(p) /\ loc[p].result # "interrupted")
            => /\ loc[p].result = "nil"
               /\ db.exists
               /\ db.rows = <<loc[p].current>>)
    /\ [][\A p \in Procs :
            (CurrentCall(p) /\ InCall(p))
            => /\ db'.log = db.log
               /\ IF db.rows = <<>>
                  THEN db'.rows \in {<<>>, <<0>>}
                  ELSE db'.rows = db.rows]_vars

C13_Witness ==
    \E p \in Procs :
        /\ CurrentCall(p) /\ JustReturned(p) /\ loc[p].result = "nil"
        /\ obs[p].prev = "other" /\ loc[p].current = 0
        /\ db = [EmptyDb EXCEPT !.rows = <<0>>] /\ N = MaxN

\* C14: when the version Apply reads in its transaction differs from before,
\* Apply returns the conflict error, its transaction has written nothing, the
\* committed state is as it was and the script of the step is not executed;
\* when the version read equals before, Apply goes on to the update, which
\* sets the version row to after, and the commit leaves the row at after.
C14_ConflictDetection ==
    /\ [](\A p \in Procs :
            /\ (loc[p].pc = "up_check" /\ loc[p].err = "conflict")
               => /\ tx[p] = NoTx
                  /\ Step(p).Version \notin Range(obs[p].ran)
                  /\ obs[p].trace = <<"read", "begin", "select">>
            /\ loc[p].pc \in {"ap_exec", "ap_commit"}
               => RowsVisible(db, tx[p]) = <<Step(p).Version>>)
    /\ [][\A p \in Procs :
            /\ (loc[p].pc = "ap_select" /\ loc'[p].pc \in {"up_check", "ap_update"})
               => IF db.rows[1] # loc[p].current
                  THEN /\ loc'[p].pc = "up_check" /\ loc'[p].err = "conflict"
                       /\ db' = db /\ tx'[p] = NoTx
                  ELSE loc'[p].pc = "ap_update"
            /\ (loc[p].pc = "ap_commit" /\ loc'[p].pc = "up_check")
               => db'.rows = <<Step(p).Version>>]_vars

C14_Witness ==
    \E p \in Procs :
        /\ loc[p].pc = "up_check" /\ loc[p].err = "conflict"
        /\ loc[p].current = 0 /\ Step(p).Version = 1 /\ db.rows = <<1>>
        /\ db.log = <<1>> /\ obs[p].ran = <<>>

\* C15: when two processes initialize the same database at the same time,
\* both having counted zero rows and both attempting the insert, the process
\* whose insert the database rejects goes on as if the table were
\* initialised: its Current or Up call never returns the rejected insert as
\* an error.
C15_RejectedInsertIsNotAnError ==
    \A p \in Procs : JustReturned(p) => loc[p].result # "init insert"

\* the order of Apply's statements as the claim gives it, and as the code has it
StatedOrder == <<"begin", "select", "update", "read", "exec", "commit">>
CodeOrder == <<"read", "begin", "select", "update", "exec", "commit">>

C17_SingleRow ==
    /\ [](db.exists => (Len(db.rows) = 1 \/ db = EmptyDb))
    /\ [](~db.exists => db.rows = <<>>)
    /\ [][Len(db.rows) = 1 => (db'.exists /\ Len(db'.rows) = 1)]_vars

C17_Witness ==
    \E p, q \in Procs :
        /\ JustReturned(p) /\ loc[p].result = "init insert"
        /\ UpCall(q) /\ obs[q].committed = <<1>>
        /\ db.exists /\ db.rows = <<1>>

\* C18: on a database whose version row is initialised, every change that
\* the calls commit to the version row is an increment by exactly 1: the
\* version never decreases and never skips a value, and every Apply is
\* called with after = before + 1.
C18_CommitsIncrementByOne ==
    /\ [](\A p \in Procs :
            loc[p].pc \in {"ap_read", "ap_select", "ap_update", "ap_exec", "ap_commit"}
            => Step(p).Version = loc[p].current + 1)
    /\ [][(db.rows # <<>> /\ db'.rows # db.rows)
           => db'.rows = <<db.rows[1] + 1>>]_vars

\* no call is in progress and at least one call has been made
AllReturned ==
    /\ \A p \in Procs : ~InCall(p)
    /\ \E p \in Procs : loc[p].calls > 0

\* C19 as stated: when several processes run Up at the same time against the
\* same initialised database with the same catalog and no script fails,
\* every call returns, and once all calls have returned the persisted
\* version is Latest().
C19_AllReturnAtLatest ==
    /\ \A p \in Procs : InCall(p) ~> ~InCall(p)
    /\ [](AllReturned => db.rows = <<N>>)

\* C19 amended: the same, for a database whose version is not above
\* Latest() (the version cannot rise above Latest() afterwards; a database
\* above Latest() is left as it is).
C19_AllReturnAtLatestFromBelow ==
    /\ \A p \in Procs : InCall(p) ~> ~InCall(p)
    /\ []((AllReturned /\ db.rows[1] <= N) => db.rows = <<N>>)
    /\ [][db.rows[1] > N => db' = db]_vars
    /\ [][db.rows[1] <= N => db'.rows[1] <= N]_vars

C19_Witness ==
    /\ \A p \in Procs : JustReturned(p) /\ obs[p].start = 0 /\ obs[p].committed # <<>>
    /\ N = MaxN /\ db.rows = <<N>>
====
